---- MODULE Spec2Model ----
(***************************************************************************)
(* Model of luna/ruby_utils.py (class RubyUtils): display-width           *)
(* measurement, ruby-annotation stripping, ruby-aware word segmentation,  *)
(* control-code expansion and greedy line breaking.                       *)
(*                                                                         *)
(* A Python string is a sequence of one-character strings.  A call that    *)
(* returns v is the record [exc |-> "none", val |-> v]; a call that raises *)
(* is [exc |-> <exception class>, val |-> <<>>].                           *)
(***************************************************************************)
EXTENDS Integers, Sequences, FiniteSets, TLC

VARIABLES input, max_linelen, start_cursor_pos, pc, result

vars == <<input, max_linelen, start_cursor_pos, pc, result>>

\* ----- bounds of the model -----
MaxLen == 5
MaxWidth == 3
MaxCursor == 2
MaxTokens == 5

\* ----- characters -----
SP == " "
NL == "\n"
\* "D" stands for the double-width codepoint U+2015 of DOUBLEWIDE_CHARS.
DOUBLEWIDE_CHARS == {"D"}
Chars == {"a", "D", SP, NL, "<", "|", ">"}

NoExc == "none"
Ok(v) == [exc |-> NoExc, val |-> v]
Raise(e) == [exc |-> e, val |-> <<>>]

\* ----- unicode_aware_len -----
RECURSIVE unicode_aware_len_loop(_, _, _)
unicode_aware_len_loop(string, i, length) ==
  IF i > Len(string) THEN length
  ELSE unicode_aware_len_loop(string, i + 1,
         IF string[i] \in DOUBLEWIDE_CHARS THEN length + 2 ELSE length + 1)

\* every codepoint counted as single-width
unicode_aware_len_all_single(string) == Len(string)

unicode_aware_len(string) == unicode_aware_len_loop(string, 1, 0)

\* ----- remove_ruby_text -----
\* the loop body without the midline test of its last branch: the reading
\* is copied to the output too
remove_ruby_step_keep_reading(st, c) ==
  IF c = "<" THEN
    IF st.processing_ruby THEN [st EXCEPT !.exc = "AssertionError"]
    ELSE [st EXCEPT !.processing_ruby = TRUE, !.seen_midline = FALSE]
  ELSE IF c = "|" THEN
    IF ~st.processing_ruby THEN [st EXCEPT !.exc = "AssertionError"]
    ELSE [st EXCEPT !.seen_midline = TRUE]
  ELSE IF c = ">" THEN
    IF ~st.processing_ruby \/ ~st.seen_midline
      THEN [st EXCEPT !.exc = "AssertionError"]
      ELSE [st EXCEPT !.processing_ruby = FALSE, !.seen_midline = TRUE]
  ELSE [st EXCEPT !.ret = Append(st.ret, c)]

\* One iteration of the scan over the state
\* [ret, processing_ruby, seen_midline, exc].
remove_ruby_step(st, c) ==
  IF c = "<" THEN
    IF st.processing_ruby THEN [st EXCEPT !.exc = "AssertionError"]
    ELSE [st EXCEPT !.processing_ruby = TRUE, !.seen_midline = FALSE]
  ELSE IF c = "|" THEN
    IF ~st.processing_ruby THEN [st EXCEPT !.exc = "AssertionError"]
    ELSE [st EXCEPT !.seen_midline = TRUE]
  ELSE IF c = ">" THEN
    IF ~st.processing_ruby \/ ~st.seen_midline
      THEN [st EXCEPT !.exc = "AssertionError"]
      ELSE [st EXCEPT !.processing_ruby = FALSE, !.seen_midline = TRUE]
  ELSE IF ~st.processing_ruby \/ ~st.seen_midline
    THEN [st EXCEPT !.ret = Append(st.ret, c)]
    ELSE st

RECURSIVE remove_ruby_scan(_, _, _)
remove_ruby_scan(line, i, st) ==
  IF st.exc # NoExc \/ i > Len(line) THEN st
  ELSE remove_ruby_scan(line, i + 1, remove_ruby_step(st, line[i]))

remove_ruby_final(line) ==
  remove_ruby_scan(line, 1,
    [ret |-> <<>>, processing_ruby |-> FALSE, seen_midline |-> FALSE,
     exc |-> NoExc])

remove_ruby_text(line) ==
  LET st == remove_ruby_final(line)
  IN IF st.exc # NoExc THEN Raise(st.exc) ELSE Ok(st.ret)

\* ----- noruby_len -----
\* the fallback measured with len() instead of unicode_aware_len
noruby_len_plain_fallback(line) ==
  LET r == remove_ruby_text(line)
  IN IF r.exc = NoExc THEN Ok(unicode_aware_len(r.val))
     ELSE IF r.exc = "AssertionError" THEN Ok(Len(line))
     ELSE Raise(r.exc)

noruby_len(line) ==
  LET r == remove_ruby_text(line)
  IN IF r.exc = NoExc THEN Ok(unicode_aware_len(r.val))
     ELSE IF r.exc = "AssertionError" THEN Ok(unicode_aware_len(line))
     ELSE Raise(r.exc)

\* ----- ruby_aware_split_words -----
\* the loop body with processing_ruby never cleared by ">"
split_words_step_no_clear(st, c) ==
  IF c = "<" /\ st.processing_ruby THEN [st EXCEPT !.exc = "AssertionError"]
  ELSE IF c = ">" /\ ~st.processing_ruby
    THEN [st EXCEPT !.exc = "AssertionError"]
  ELSE
    LET pr == IF c = "<" THEN TRUE ELSE st.processing_ruby
    IN IF c = SP \/ (c = NL /\ ~pr)
         THEN [st EXCEPT
                 !.ret = IF c = NL THEN st.ret \o <<st.acc, <<NL>>>>
                         ELSE Append(st.ret, st.acc),
                 !.acc = <<>>,
                 !.processing_ruby = pr]
         ELSE [st EXCEPT !.acc = Append(st.acc, c), !.processing_ruby = pr]

\* One iteration over the state [ret, acc, processing_ruby, exc].  The
\* flush test is Python's `c == ' ' or c == '\n' and not processing_ruby`,
\* in which `and` binds tighter than `or`.
split_words_step(st, c) ==
  IF c = "<" /\ st.processing_ruby THEN [st EXCEPT !.exc = "AssertionError"]
  ELSE IF c = ">" /\ ~st.processing_ruby
    THEN [st EXCEPT !.exc = "AssertionError"]
  ELSE
    LET pr == IF c = "<" THEN TRUE
              ELSE IF c = ">" THEN FALSE
              ELSE st.processing_ruby
    IN IF c = SP \/ (c = NL /\ ~pr)
         THEN [st EXCEPT
                 !.ret = IF c = NL THEN st.ret \o <<st.acc, <<NL>>>>
                         ELSE Append(st.ret, st.acc),
                 !.acc = <<>>,
                 !.processing_ruby = pr]
         ELSE [st EXCEPT !.acc = Append(st.acc, c), !.processing_ruby = pr]

RECURSIVE split_words_scan(_, _, _)
split_words_scan(line, i, st) ==
  IF st.exc # NoExc \/ i > Len(line) THEN st
  ELSE split_words_scan(line, i + 1, split_words_step(st, line[i]))

ruby_aware_split_words(line) ==
  LET st == split_words_scan(line, 1,
              [ret |-> <<>>, acc |-> <<>>, processing_ruby |-> FALSE,
               exc |-> NoExc])
  IN IF st.exc # NoExc THEN Raise(st.exc)
     ELSE IF st.acc # <<>> THEN Ok(Append(st.ret, st.acc))
     ELSE Ok(st.ret)

\* ----- linebreak_text -----
\* '\n'.join(broken_lines)
RECURSIVE join_lines(_)
join_lines(broken_lines) ==
  IF broken_lines = <<>> THEN <<>>
  ELSE IF Len(broken_lines) = 1 THEN broken_lines[1]
  ELSE broken_lines[1] \o <<NL>> \o join_lines(Tail(broken_lines))

\* max([cls.noruby_len(elem) for elem in splitLine]) of a non-empty list
RECURSIVE max_elem_len(_)
max_elem_len(splitLine) ==
  LET h == noruby_len(splitLine[1]).val
  IN IF Len(splitLine) = 1 THEN h
     ELSE LET t == max_elem_len(Tail(splitLine))
          IN IF h > t THEN h ELSE t

\* the unbreakable-line test off by one
unbreakable_plus1(width, splitLine) == width + 1 < max_elem_len(splitLine)

\* the test of the unbreakable-line return
unbreakable(width, splitLine) == width < max_elem_len(splitLine)

\* the overflow test of the packing loop: Python len() of acc + ' ' + word
overflows(acc, word, cursor, width) ==
  Len(acc \o <<SP>> \o word) + cursor > width

\* One iteration of the packing loop over the state
\* [broken_lines, acc, first_word, cursor].
pack_step(st, word, width) ==
  IF overflows(st.acc, word, st.cursor, width) THEN
    [st EXCEPT !.broken_lines = Append(st.broken_lines, st.acc),
               !.acc = IF word # <<NL>> THEN word ELSE <<>>,
               !.cursor = 0]
  ELSE IF word = <<NL>> THEN
    [st EXCEPT !.broken_lines = Append(st.broken_lines, st.acc),
               !.acc = <<>>,
               !.cursor = 0,
               !.first_word = TRUE]
  ELSE
    [st EXCEPT !.acc = IF ~st.first_word THEN st.acc \o <<SP>> \o word
                       ELSE word,
               !.first_word = FALSE]

RECURSIVE pack_loop(_, _, _, _)
pack_loop(splitLine, i, st, width) ==
  IF i > Len(splitLine) THEN st
  ELSE pack_loop(splitLine, i + 1, pack_step(st, splitLine[i], width), width)

\* the trailing flush without its `or splitLine[-1] == '\n'`
break_lines_no_trailing_blank(splitLine, width, cursor) ==
  LET st == pack_loop(splitLine, 1,
              [broken_lines |-> <<>>, acc |-> <<>>, first_word |-> TRUE,
               cursor |-> cursor], width)
      broken_lines ==
        IF st.acc # <<>>
          THEN Append(st.broken_lines, st.acc)
          ELSE st.broken_lines
  IN join_lines(broken_lines)

\* the packing loop, the trailing flush and the join
break_lines(splitLine, width, cursor) ==
  LET st == pack_loop(splitLine, 1,
              [broken_lines |-> <<>>, acc |-> <<>>, first_word |-> TRUE,
               cursor |-> cursor], width)
      broken_lines ==
        IF st.acc # <<>> \/ splitLine[Len(splitLine)] = <<NL>>
          THEN Append(st.broken_lines, st.acc)
          ELSE st.broken_lines
  IN join_lines(broken_lines)

\* the fast-path test
fits(line_len, cursor, width) == line_len + cursor < width

linebreak_text(line, width, cursor) ==
  LET n == noruby_len(line)
  IN IF n.exc # NoExc THEN Raise(n.exc)
     ELSE IF fits(n.val, cursor, width) THEN Ok(line)
     ELSE
       LET s == ruby_aware_split_words(line)
       IN IF s.exc # NoExc THEN Raise(s.exc)
          ELSE IF s.val = <<>> THEN Raise("ValueError")
          ELSE IF unbreakable(width, s.val) THEN Ok(line)
          ELSE Ok(break_lines(s.val, width, cursor))

\* ----- apply_control_codes -----
CCChars == {"a", "%", "{", "}", "n", "s"}

\* %{s} expanded as %{n}
cc_emit_swapped(cc_acc) ==
  IF cc_acc = <<"n">> THEN Ok(<<NL>>)
  ELSE IF cc_acc = <<"s">> THEN Ok(<<NL>>)
  ELSE Raise("AssertionError")

\* an unknown code dropped silently instead of raising
cc_emit_ignore_unknown(cc_acc) ==
  IF cc_acc = <<"n">> THEN Ok(<<NL>>)
  ELSE IF cc_acc = <<"s">> THEN Ok(<<SP>>)
  ELSE Ok(<<>>)

\* what a closed control code appends to the output
cc_emit(cc_acc) ==
  IF cc_acc = <<"n">> THEN Ok(<<NL>>)
  ELSE IF cc_acc = <<"s">> THEN Ok(<<SP>>)
  ELSE Raise("AssertionError")

\* One iteration of the scan over the state
\* [processed_line, has_pct, in_cc, cc_acc, exc].
control_codes_step(st, c) ==
  IF c = "%" THEN [st EXCEPT !.has_pct = TRUE]
  ELSE IF st.has_pct /\ c = "{" THEN
    [st EXCEPT !.in_cc = TRUE, !.has_pct = FALSE, !.cc_acc = <<>>]
  ELSE IF st.in_cc /\ c = "}" THEN
    LET e == cc_emit(st.cc_acc)
    IN IF e.exc # NoExc THEN [st EXCEPT !.in_cc = FALSE, !.exc = e.exc]
       ELSE [st EXCEPT !.in_cc = FALSE,
                       !.processed_line = st.processed_line \o e.val]
  ELSE IF ~st.in_cc THEN
    [st EXCEPT !.processed_line = Append(st.processed_line, c)]
  ELSE [st EXCEPT !.cc_acc = Append(st.cc_acc, c)]

RECURSIVE control_codes_scan(_, _, _)
control_codes_scan(text, i, st) ==
  IF st.exc # NoExc \/ i > Len(text) THEN st
  ELSE control_codes_scan(text, i + 1, control_codes_step(st, text[i]))

control_codes_final(text) ==
  control_codes_scan(text, 1,
    [processed_line |-> <<>>, has_pct |-> FALSE, in_cc |-> FALSE,
     cc_acc |-> <<>>, exc |-> NoExc])

apply_control_codes(text) ==
  LET st == control_codes_final(text)
  IN IF st.exc # NoExc THEN Raise(st.exc) ELSE Ok(st.processed_line)

\* ----- the inputs -----
Lines == UNION {[1..n -> Chars] : n \in 0..MaxLen}

Init ==
  /\ input \in Lines
  /\ max_linelen = 0
  /\ start_cursor_pos = 0
  /\ pc = "ready"
  /\ result = Ok(<<>>)

Call_unicode_aware_len ==
  /\ pc = "ready"
  /\ pc' = "unicode_aware_len"
  /\ result' = Ok(unicode_aware_len(input))
  /\ UNCHANGED <<input, max_linelen, start_cursor_pos>>

Call_remove_ruby_text ==
  /\ pc = "ready"
  /\ pc' = "remove_ruby_text"
  /\ result' = remove_ruby_text(input)
  /\ UNCHANGED <<input, max_linelen, start_cursor_pos>>

Call_noruby_len ==
  /\ pc = "ready"
  /\ pc' = "noruby_len"
  /\ result' = noruby_len(input)
  /\ UNCHANGED <<input, max_linelen, start_cursor_pos>>

Call_ruby_aware_split_words ==
  /\ pc = "ready"
  /\ pc' = "ruby_aware_split_words"
  /\ result' = ruby_aware_split_words(input)
  /\ UNCHANGED <<input, max_linelen, start_cursor_pos>>

Call_linebreak_text ==
  /\ pc = "ready"
  /\ \E w \in 1..MaxWidth, c \in 0..MaxCursor :
       /\ max_linelen' = w
       /\ start_cursor_pos' = c
       /\ result' = linebreak_text(input, w, c)
  /\ pc' = "linebreak_text"
  /\ UNCHANGED input

Next ==
  \/ Call_unicode_aware_len
  \/ Call_remove_ruby_text
  \/ Call_noruby_len
  \/ Call_ruby_aware_split_words
  \/ Call_linebreak_text

Spec == Init /\ [][Next]_vars

\* Texts for the control-code expander: up to MaxTokens tokens, a token being
\* one character or one whole marker %{n} / %{s}.
CCTokens ==
  {<<c>> : c \in CCChars} \cup {<<"%", "{", "n", "}">>, <<"%", "{", "s", "}">>}

RECURSIVE Flatten(_)
Flatten(toks) ==
  IF toks = <<>> THEN <<>> ELSE Head(toks) \o Flatten(Tail(toks))

Texts == {Flatten(t) : t \in UNION {[1..n -> CCTokens] : n \in 0..MaxTokens}}

InitCC ==
  /\ input \in Texts
  /\ max_linelen = 0
  /\ start_cursor_pos = 0
  /\ pc = "ready"
  /\ result = Ok(<<>>)

Call_apply_control_codes ==
  /\ pc = "ready"
  /\ pc' = "apply_control_codes"
  /\ result' = apply_control_codes(input)
  /\ UNCHANGED <<input, max_linelen, start_cursor_pos>>

NextCC == Call_apply_control_codes

SpecCC == InitCC /\ [][NextCC]_vars

\* ======================= properties =======================

\* ----- vocabulary of the properties -----
IsWs(c) == c = SP \/ c = NL

\* The grammar of a line whose annotations are all well-formed
\* <base|reading>: the state after reading line[1..i], "BAD" once a
\* delimiter came out of order.
RECURSIVE AnnotState(_, _)
AnnotState(line, i) ==
  IF i = 0 THEN "OUTSIDE"
  ELSE LET q == AnnotState(line, i - 1)
           c == line[i]
       IN IF q = "BAD" THEN "BAD"
          ELSE IF c = "<" THEN (IF q = "OUTSIDE" THEN "IN_BASE" ELSE "BAD")
          ELSE IF c = "|" THEN (IF q = "IN_BASE" THEN "IN_READING" ELSE "BAD")
          ELSE IF c = ">" THEN (IF q = "IN_READING" THEN "OUTSIDE" ELSE "BAD")
          ELSE q

WellFormed(line) == AnnotState(line, Len(line)) = "OUTSIDE"

\* position i of s lies after a "<" and not after its ">"
RECURSIVE OpenAt(_, _)
OpenAt(s, i) ==
  IF i = 0 THEN FALSE
  ELSE IF s[i] = "<" THEN TRUE
  ELSE IF s[i] = ">" THEN FALSE
  ELSE OpenAt(s, i - 1)

\* the newlines of s that lie between a "<" and the next ">"
InsideNewlines(s) ==
  Cardinality({i \in 1..Len(s) : s[i] = NL /\ OpenAt(s, i)})

\* s split on newline, as Python's s.split('\n')
RECURSIVE SplitOnNL(_, _, _)
SplitOnNL(s, i, cur) ==
  IF i > Len(s) THEN <<cur>>
  ELSE IF s[i] = NL THEN <<cur>> \o SplitOnNL(s, i + 1, <<>>)
  ELSE SplitOnNL(s, i + 1, Append(cur, s[i]))

OutputLines(s) == SplitOnNL(s, 1, <<>>)

\* the number of non-whitespace characters before position i
NonWsBefore(s, i) == Cardinality({j \in 1..(i - 1) : ~IsWs(s[j])})

\* where the newlines of s stand, counted in non-whitespace characters
BreakPoints(s) == {NonWsBefore(s, i) : i \in {k \in 1..Len(s) : s[k] = NL}}

\* no leading, trailing or consecutive whitespace
NoStrayWhitespace(s) ==
  /\ s # <<>>
  /\ ~IsWs(s[1])
  /\ ~IsWs(s[Len(s)])
  /\ \A i \in 1..(Len(s) - 1) : ~(IsWs(s[i]) /\ IsWs(s[i + 1]))

Called(op) == pc = op

Units == ruby_aware_split_words(input)

\* some unit of the segmentation is wider than the limit
SomeUnitTooWide ==
  LET u == Units
  IN /\ u.exc = NoExc
     /\ \E k \in 1..Len(u.val) : noruby_len(u.val[k]).val > max_linelen

\* linebreak_text went through the packing loop
WrappingPerformed ==
  /\ Called("linebreak_text")
  /\ result.exc = NoExc
  /\ ~(noruby_len(input).val + start_cursor_pos < max_linelen)
  /\ Units.exc = NoExc
  /\ ~SomeUnitTooWide

\* C1: with start_cursor = 0, when linebreak_text returns and no word unit is
\* wider than max_width, every line of the output has display width
\* (noruby_len) at most max_width.
C1_WidthBudget ==
  (/\ Called("linebreak_text")
   /\ start_cursor_pos = 0
   /\ result.exc = NoExc
   /\ Units.exc = NoExc
   /\ ~SomeUnitTooWide)
  => \A k \in 1..Len(OutputLines(result.val)) :
       noruby_len(OutputLines(result.val)[k]).val <= max_linelen

\* C2: for a line whose annotations are all well-formed, linebreak_text puts
\* no line break between the "<" and the ">" of an annotation other than the
\* newlines the input already had there.
C2_NoBreakInsideAnnotation ==
  (/\ Called("linebreak_text")
   /\ WellFormed(input)
   /\ result.exc = NoExc)
  => InsideNewlines(result.val) <= InsideNewlines(input)

\* C3: for a well-formed line that contains an annotation,
\* ruby_aware_split_words returns units none of which begins or ends inside
\* an annotation: every unit is itself well-formed.
C3_SegmenterAtomicity ==
  (/\ Called("ruby_aware_split_words")
   /\ WellFormed(input)
   /\ \E i \in 1..Len(input) : input[i] = "<")
  => /\ result.exc = NoExc
     /\ \A k \in 1..Len(result.val) : WellFormed(result.val[k])

\* C4: a line without newlines whose measured width plus start_cursor equals
\* max_width is returned by linebreak_text unchanged.
C4_ExactFitNoBreak ==
  (/\ Called("linebreak_text")
   /\ \A i \in 1..Len(input) : input[i] # NL
   /\ noruby_len(input).val + start_cursor_pos = max_linelen)
  => result = Ok(input)

\* C5: for a line with no leading, trailing or consecutive whitespace on
\* which wrapping is performed, every newline of the input is still a line
\* break of the output and no line of the output is empty.
C5_ForcedBreaksKept ==
  (WrappingPerformed /\ NoStrayWhitespace(input))
  => /\ BreakPoints(input) \subseteq BreakPoints(result.val)
     /\ \A k \in 1..Len(OutputLines(result.val)) :
          OutputLines(result.val)[k] # <<>>

\* C6: if some unit returned by ruby_aware_split_words has noruby_len greater
\* than max_width, linebreak_text returns exactly the input line.
C6_UnbreakablePassThrough ==
  (Called("linebreak_text") /\ SomeUnitTooWide) => result = Ok(input)

C6_Witness ==
  /\ Called("linebreak_text")
  /\ ~fits(noruby_len(input).val, start_cursor_pos, max_linelen)
  /\ SomeUnitTooWide
  /\ Len(Units.val) > 1
  /\ start_cursor_pos = 0
  /\ result = Ok(input)

\* C7: linebreak_text returns a string and does not raise, for every line,
\* every max_width >= 1 and every start_cursor >= 0.
C7_WrapNeverRaises ==
  Called("linebreak_text") => result.exc = NoExc

\* a "<" with no "|" and then ">" after it
Unterminated(line) ==
  \E i \in 1..Len(line) :
    /\ line[i] = "<"
    /\ ~\E j \in (i + 1)..Len(line), k \in (i + 1)..Len(line) :
          j < k /\ line[j] = "|" /\ line[k] = ">"

\* C8: remove_ruby_text raises on every line that contains a "<" not followed
\* by a "|" and a ">" before the end of the line.
C8_UnterminatedRejected ==
  (Called("remove_ruby_text") /\ Unterminated(input)) => result.exc # NoExc

\* C9: noruby_len never raises; it returns the width of the raw line when
\* remove_ruby_text raises on it and the width of the stripped text otherwise.
C9_MeasureDegrades ==
  Called("noruby_len")
  => /\ result.exc = NoExc
     /\ remove_ruby_text(input).exc # NoExc
          => result.val = unicode_aware_len(input)
     /\ remove_ruby_text(input).exc = NoExc
          => result.val = unicode_aware_len(remove_ruby_text(input).val)

C9_Witness ==
  /\ Called("noruby_len")
  /\ remove_ruby_text(input).exc # NoExc
  /\ \E i \in 1..Len(input) : input[i] \in DOUBLEWIDE_CHARS
  /\ result = Ok(Len(input) + 1)

\* "%" occurs in text only as the first character of %{n} or %{s}
StartsMarker(text, i) ==
  /\ i + 3 <= Len(text)
  /\ text[i] = "%"
  /\ text[i + 1] = "{"
  /\ text[i + 2] \in {"n", "s"}
  /\ text[i + 3] = "}"

OnlyMarkers(text) ==
  \A i \in 1..Len(text) : text[i] = "%" => StartsMarker(text, i)

\* text with each %{n} replaced by a newline and each %{s} by a space
RECURSIVE Expanded(_, _)
Expanded(text, i) ==
  IF i > Len(text) THEN <<>>
  ELSE IF StartsMarker(text, i)
    THEN <<IF text[i + 2] = "n" THEN NL ELSE SP>> \o Expanded(text, i + 4)
    ELSE <<text[i]>> \o Expanded(text, i + 1)

\* C10: when "%" occurs only as the first character of a marker %{n} or %{s},
\* apply_control_codes returns the text with each %{n} replaced by one
\* newline, each %{s} by one space and every other character kept in order.
C10_ControlCodeExpansion ==
  (Called("apply_control_codes") /\ OnlyMarkers(input))
  => result = Ok(Expanded(input, 1))

C10_Witness ==
  /\ Called("apply_control_codes")
  /\ OnlyMarkers(input)
  /\ \E i, j \in 1..Len(input) :
       /\ StartsMarker(input, i) /\ input[i + 2] = "n"
       /\ StartsMarker(input, j) /\ input[j + 2] = "s"
  /\ Len(input) > 8
  /\ result.exc = NoExc
  /\ Len(result.val) = Len(input) - 6

\* how often character c occurs in s
Count(s, c) == Cardinality({i \in 1..Len(s) : s[i] = c})

\* some "{" of text directly follows a "%"
HasPercentBrace(text) ==
  \E i \in 1..(Len(text) - 1) : text[i] = "%" /\ text[i + 1] = "{"

\* C11: only a "{" directly following "%" opens a control code: after a "%"
\* followed by another character the scanner is back in NORMAL, so in a text
\* where no "{" directly follows a "%" every "{" is emitted verbatim and
\* apply_control_codes returns.
C11_StrayPercentNormal ==
  (Called("apply_control_codes") /\ ~HasPercentBrace(input))
  => /\ result.exc = NoExc
     /\ Count(result.val, "{") = Count(input, "{")

\* text[i..j] is a closed marker %{code}: code holds no "%", "{" or "}"
ClosedMarker(text, i, j) ==
  /\ i + 2 <= j
  /\ j <= Len(text)
  /\ text[i] = "%"
  /\ text[i + 1] = "{"
  /\ text[j] = "}"
  /\ \A k \in (i + 2)..(j - 1) : text[k] \notin {"%", "{", "}"}

MarkerName(text, i, j) == SubSeq(text, i + 2, j - 1)

HasUnknownMarker(text) ==
  \E i \in 1..Len(text), j \in 1..Len(text) :
    /\ ClosedMarker(text, i, j)
    /\ MarkerName(text, i, j) \notin {<<"n">>, <<"s">>}

Delimiters == {"<", "|", ">"}

\* line[i..] with every annotation replaced by its base segment: a character
\* is kept when it is no delimiter and stands outside annotations or in a base
RECURSIVE BaseText(_, _)
BaseText(line, i) ==
  IF i > Len(line) THEN <<>>
  ELSE (IF /\ line[i] \notin Delimiters
           /\ AnnotState(line, i) \in {"OUTSIDE", "IN_BASE"}
          THEN <<line[i]>> ELSE <<>>) \o BaseText(line, i + 1)

\* C13: for a line whose annotations are all well-formed and non-nested,
\* remove_ruby_text returns the line with each annotation replaced by its
\* base segment and everything else kept in order; the result holds none of
\* "<", "|", ">", and stripping it again returns it unchanged.
C13_StripResult ==
  (Called("remove_ruby_text") /\ WellFormed(input))
  => /\ result = Ok(BaseText(input, 1))
     /\ \A i \in 1..Len(result.val) : result.val[i] \notin Delimiters
     /\ remove_ruby_text(result.val) = Ok(result.val)

C13_Witness ==
  /\ Called("remove_ruby_text")
  /\ WellFormed(input)
  /\ Len(input) = 5
  /\ input[1] = "<" /\ input[3] = "|" /\ input[5] = ">"
  /\ input[2] \notin Delimiters /\ input[4] \notin Delimiters
  /\ input[2] # input[4]
  /\ result = Ok(<<input[2]>>)

\* C14: for a string of m codepoints of which n are double-width,
\* unicode_aware_len returns m + n and never fails.
C14_WidthExact ==
  Called("unicode_aware_len")
  => result =
       Ok(Len(input)
          + Cardinality({i \in 1..Len(input) : input[i] \in DOUBLEWIDE_CHARS}))

C14_Witness ==
  /\ Called("unicode_aware_len")
  /\ Len(input) = 4
  /\ Cardinality({i \in 1..Len(input) : input[i] \in DOUBLEWIDE_CHARS}) = 2
  /\ result = Ok(6)

\* C15: for a well-formed line whose last character is a newline and on which
\* wrapping is performed, the output of linebreak_text ends with a newline:
\* its last line is the empty line.
C15_TrailingBlankKept ==
  (/\ Called("linebreak_text")
   /\ input # <<>>
   /\ input[Len(input)] = NL
   /\ WellFormed(input)
   /\ WrappingPerformed)
  => /\ result.val # <<>>
     /\ result.val[Len(result.val)] = NL

C15_Witness ==
  /\ WrappingPerformed
  /\ WellFormed(input)
  /\ Len(input) >= 4
  /\ input[Len(input)] = NL
  /\ input[1] = "<"
  /\ Len(OutputLines(result.val)) >= 3
  /\ OutputLines(result.val)[Len(OutputLines(result.val))] = <<>>

\* C16: remove_ruby_text raises on every line in which a delimiter fires from
\* a state other than its valid one: "<" when not OUTSIDE, "|" when not
\* IN_BASE, ">" when not IN_READING.
C16_StrictDelimiterOrder ==
  (Called("remove_ruby_text") /\ AnnotState(input, Len(input)) = "BAD")
  => result.exc # NoExc

\* C17 as stated: ruby_aware_split_words raises on a line exactly when
\* remove_ruby_text raises on it.
C17_SameAcceptance ==
  Called("ruby_aware_split_words")
  => (result.exc # NoExc <=> remove_ruby_text(input).exc # NoExc)

\* C17: whenever ruby_aware_split_words raises on a line, remove_ruby_text
\* raises on that line too.
C17_SegmenterRejectsOnlyParserRejects ==
  (Called("ruby_aware_split_words") /\ result.exc # NoExc)
  => remove_ruby_text(input).exc # NoExc

C17_Witness ==
  /\ Called("ruby_aware_split_words")
  /\ result = Raise("AssertionError")
  /\ remove_ruby_text(input) = Raise("AssertionError")
  /\ Count(input, "<") = 2
  /\ Count(input, "|") = 1
  /\ Count(input, ">") = 0

\* no space at the start of s or of one of its lines, no two spaces in a row
NoLeadingOrDoubleSpace(s) ==
  /\ s # <<>> => s[1] # SP
  /\ \A i \in 1..(Len(s) - 1) :
       /\ ~(s[i] = SP /\ s[i + 1] = SP)
       /\ ~(s[i] = NL /\ s[i + 1] = SP)

\* C18: after any break (width-driven or forced, a forced newline consumed
\* by the overflow branch included) the next word starts the accumulator
\* without a joining space: for an input with no leading and no consecutive
\* spaces, no line of the output of linebreak_text begins with a space.
C18_NoLeadingSeparator ==
  (/\ Called("linebreak_text")
   /\ result.exc = NoExc
   /\ NoLeadingOrDoubleSpace(input))
  => \A k \in 1..Len(OutputLines(result.val)) :
       LET l == OutputLines(result.val)[k]
       IN l # <<>> => l[1] # SP

\* the state of the packing loop when it reaches word i
PackStateBefore(splitLine, i, width, cursor) ==
  pack_loop(SubSeq(splitLine, 1, i - 1), 1,
    [broken_lines |-> <<>>, acc |-> <<>>, first_word |-> TRUE,
     cursor |-> cursor], width)

\* the line that word would make: joined by one space, by nothing when the
\* line is still empty
Joined(acc, word) == IF acc = <<>> THEN word ELSE acc \o <<SP>> \o word

\* C19: the packing loop places a width-driven break before a word only if
\* the ruby-stripped display width of the accumulator joined with that word,
\* plus the current cursor, exceeds max_width.
C19_BreakOnlyOnMeasuredOverflow ==
  WrappingPerformed
  => \A i \in 1..Len(Units.val) :
       LET st == PackStateBefore(Units.val, i, max_linelen, start_cursor_pos)
           word == Units.val[i]
       IN (word # <<NL>> /\ overflows(st.acc, word, st.cursor, max_linelen))
          => noruby_len(Joined(st.acc, word)).val + st.cursor > max_linelen

NonWs(c) == ~IsWs(c)

\* C20: whenever linebreak_text returns, its output without spaces and
\* newlines equals the input without spaces and newlines.
C20_OnlyWhitespaceMoves ==
  (Called("linebreak_text") /\ result.exc = NoExc)
  => SelectSeq(result.val, NonWs) = SelectSeq(input, NonWs)

====
